---------------------------- MODULE Spec2Model ----------------------------
(***************************************************************************)
(* Model of the websocket (stateful) path of the live handler:             *)
(* HTTPHandler.serveWS / HTTPHandler._serveWS, the read goroutine started  *)
(* by _serveWS, the write loop, the two unbuffered error channels and the  *)
(* socket's outbound queue.                                                *)
(*                                                                         *)
(* One upgraded connection is modelled.  The main goroutine's position is  *)
(* pc, the read goroutine's position is rpc.  An unbuffered channel is a   *)
(* slot holding at most one offered value: the sender offers the value and *)
(* stays at a "send..." position until a receive in the write loop's       *)
(* select takes it (rendezvous), which also moves the sender on.           *)
(***************************************************************************)
EXTENDS Integers, Sequences, FiniteSets, TLC

\* Number of frames the peer sends on the connection (bounds the run).
MaxMsgs == 2
\* Capacity of the socket's outbound queue (sock.msgs).
MaxQueue == 1
\* Number of handlers registered through HandleParams.
NumParams == 2
\* Requests a client starts by itself on the stateless path.
MaxRequests == 2
\* Options passed to a constructor.
NumOptions == 3
\* Length of a child id and of an event name.
MaxLen == 2
\* HandleEvent / HandleSelf calls made on a handler.
MaxRegs == 3

VARIABLES
    pc,             \* main goroutine: position in serveWS / _serveWS
    pidx,           \* index of the next param handler in the replay loop
    retErr,         \* value returned by _serveWS
    logged,         \* serveWS printed the "ws closed with status" line
    errorCalls,     \* number of h.Error() invocations
    rpc,            \* read goroutine: position in the go func of _serveWS
    m,              \* the inbound Event being processed by the read goroutine
    nread,          \* frames read so far
    outcome,        \* result of CallParams/CallEvent for m
    nRender,        \* RenderSocket calls made for m
    nUpdate,        \* sock.UpdateRender calls made for m
    nAck,           \* acknowledgements queued for m
    frame,          \* type of the last frame c.Read returned
    sockets,        \* the handler's live set
    connected,      \* sock.Connected()
    assigns,        \* sock.Assigns()
    latestRender,   \* sock.LatestRender()
    msgs,           \* sock.msgs, the outbound queue
    closeStatus,    \* status the websocket was closed with, "open" if not
    slow,           \* closeSlow has been invoked
    internalErrors, \* the internalErrors channel (offered value)
    eventErrors,    \* the eventErrors channel (offered value)
    chClosed,       \* both channels have been closed by the read goroutine
    ctxDone,        \* the connection's context is cancelled
    wire,           \* events written to the websocket, in order
    connectFailed,  \* the write of the connect event failed
    wfailed,        \* a write of the write loop failed
    mounts,         \* Mount invocations on the connected socket
    exitBranch,     \* the return statement of _serveWS that was taken
    retCtx,         \* the context was cancelled when _serveWS returned
    wlog,           \* handler calls made by _serveWS before the write loop
    recvErr,        \* the error the write loop received from internalErrors
    eventHandlers,  \* BaseHandler.eventHandlers (registered event names)
    \* serveHTTP (the stateless path), one request at a time
    hpc,            \* position in serveHTTP, "idle" between requests
    hreq,           \* the request: path and value of the live-repair marker
    hpidx,          \* index of the next param handler
    hlog,           \* calls serveHTTP has made for the request, in order
    hresp,          \* the response: status, Location, body
    hAssigns,       \* Assigns() of the request's socket
    hLatestRender,  \* LatestRender() of the request's socket
    hConnected,     \* Connected() of the request's socket
    session,        \* the session store's content for the client
    nreq,           \* requests the client has started by itself
    nredirects,     \* redirects issued since the client's last own request
    \* handler construction
    cpc,            \* position in NewHandler
    ckind,          \* the constructor called
    copts,          \* the options passed: whether each one succeeds
    capplied,       \* options applied so far: target and index, in order
    cresult,        \* what the constructor returned
    \* Component.Event
    sargs,          \* two (child id, event name) pairs
    sout,           \* the scoped names computed for them
    \* BaseHandler
    bh,             \* the handler: its two registries, its mount and render
    rlog,           \* the HandleEvent / HandleSelf calls made, in order
    rgot,           \* the last getEvent / getSelf call and its result
    \* page.Component
    comp,           \* the component: id, State and its two registries
    cret,           \* the value the last CallEvent / CallSelf returned
    clast           \* the last call: registry, event, what a handler returns

mainVars == <<pc, pidx, retErr, logged, errorCalls, mounts, exitBranch, retCtx,
             recvErr, wlog>>
readVars == <<rpc, m, nread, outcome, nRender, nUpdate, nAck, frame>>
sockVars == <<sockets, connected, assigns, latestRender, msgs, closeStatus, slow>>
chanVars == <<internalErrors, eventErrors, chClosed>>
envVars  == <<ctxDone, wire, connectFailed, wfailed, eventHandlers>>
wsVars == <<mainVars, readVars, sockVars, chanVars, envVars>>
httpVars == <<hpc, hreq, hpidx, hlog, hresp, hAssigns, hLatestRender,
              hConnected, session, nreq, nredirects>>
cfgVars == <<cpc, ckind, copts, capplied, cresult>>
scopeVars == <<sargs, sout>>
regVars == <<bh, rlog, rgot>>
compVars == <<comp, cret, clast>>
notWS == <<httpVars, cfgVars, scopeVars, regVars, compVars>>
notHTTP == <<mainVars, readVars, chanVars, envVars, cfgVars, scopeVars, regVars,
             compVars>>
notCfg == <<wsVars, httpVars, scopeVars, regVars, compVars>>
notScope == <<wsVars, httpVars, cfgVars, regVars, compVars>>
notReg == <<wsVars, httpVars, cfgVars, scopeVars, compVars>>
notComp == <<wsVars, httpVars, cfgVars, scopeVars, regVars>>
vars == <<wsVars, httpVars, cfgVars, scopeVars, regVars, compVars>>

---------------------------------------------------------------------------
\* Values

\* The one socket created by _serveWS for the connection.
Sock == "ws"

\* Event types of the wire protocol.
EventConnect == "connect"
EventParams == "params"
EventAck == "ack"
EventError == "err"
EventPatch == "patch"

\* Frame types c.Read returns.
MessageText == "text"
MessageBinary == "binary"

\* Event names the peer sends: one registered with HandleEvent, one not.
Registered == "ev"
Unregistered == "nope"
InboundTypes == {EventParams, Registered, Unregistered}

\* State values handlers return: Mount, a param handler, an event handler.
MountState == "s0"
ParamState == "s1"
EventStates == {"s2"}
NoState == "nil"

\* An error: the operation that produced (or wrapped) it and the innermost
\* error its %w chain reaches.  Nil is the nil error.
Err(op, cause) == [op |-> op, cause |-> cause]
Nil == Err("nil", "nil")

NoMsg == [t |-> "none", id |-> 0]
NoRender == <<>>


---------------------------------------------------------------------------
\* Helpers

\* h.AddSocket(sock): insert into the live set.
AddSocket(set, s) == set \cup {s}

\* h.DeleteSocket(sock): remove from the live set.
DeleteSocket(set, s) == set \ {s}

\* errors.Is(err, context.Canceled)
IsCanceled(err) == err.cause = "canceled"

\* websocket.CloseStatus(err): the close code carried by err's chain, -1
\* ("none") when the chain holds no CloseError (in particular for nil).
CloseStatus(err) ==
    CASE err.cause = "normal"    -> "StatusNormalClosure"
      [] err.cause = "goingaway" -> "StatusGoingAway"
      [] err.cause = "abnormal"  -> "StatusAbnormalClosure"
      [] OTHER                   -> "none"

\* serveWS, after _serveWS returned err: TRUE when the log line is printed.
Logs(err) ==
    IF IsCanceled(err) THEN FALSE
    ELSE CASE CloseStatus(err) = "StatusNormalClosure" -> FALSE
           [] CloseStatus(err) = "StatusGoingAway"     -> FALSE
           [] OTHER                                    -> TRUE

\* c.Close(status, reason): closes the websocket; a closed one stays as it is.
Close(cur, status) == IF cur = "open" THEN status ELSE cur

\* The render handler: the tree rendered from a state.
Render(s) == <<"html", s>>

\* The results c.Write(ctx, ...) under writeTimeout can have.  With the
\* context cancelled or the websocket closed the write fails.
WriteResults ==
    IF closeStatus # "open" THEN {"closed"}
    ELSE IF ctxDone THEN {"canceled", "closed"}
    ELSE {"ok", "timeout", "closed"}

\* The errors c.Read(ctx) can return.
ReadErrors ==
    IF closeStatus # "open" THEN {"closed"}
    ELSE IF ctxDone THEN {"canceled"}
    ELSE {"normal", "goingaway", "abnormal", "eof"}

\* sock.Send(event, data, options...): queue the event on sock.msgs; when
\* the queue is full the event is not queued and closeSlow is called.
SendQueue(q, ev) == IF Len(q) < MaxQueue THEN Append(q, ev) ELSE q
SendSlow(q) == Len(q) >= MaxQueue

\* A closeSlow that closes with the internal-error status.
closeSlowInternal(cur) == Close(cur, "StatusInternalError")

\* s.closeSlow, installed by assignWS.
closeSlow(cur) == Close(cur, "StatusPolicyViolation")

\* RenderSocket(ctx, h, sock) on success: the queue after the patch (if any)
\* for tree against the socket's previous snapshot has been sent.
PatchNeeded(prev, tree) == prev # NoRender /\ prev # tree
PatchEvent == [t |-> EventPatch, id |-> 0, src |-> 0]

\* The stateless path's values: a request is its path and the value of its
\* live-repair query parameter ("" when absent), a response its status, its
\* Location header and its body.
Paths == {"/a", "/b"}
Requests == [path : Paths, repair : {"", "1"}]
NoRequest == [path |-> "", repair |-> ""]
NoBody == <<>>
NoResponse == [status |-> "none", location |-> NoRequest, body |-> NoBody]

\* h.getEvent(t)
getEvent(t) == IF t \in eventHandlers THEN "handler" ELSE "ErrNoEventHandler"

\* The BaseHandler: a Go map is a function whose domain is its keys.
EmptyMap == <<>>
Put(map, key, value) ==
    [k \in DOMAIN map \cup {key} |-> IF k = key THEN value ELSE map[k]]

\* NewHandler() without options: empty registries, a mount handler that
\* returns nil, nil and a render handler that returns ErrNoRenderer.
NewHandler ==
    [eventHandlers |-> EmptyMap, selfHandlers |-> EmptyMap,
     mountHandler |-> "default", renderHandler |-> "default"]

\* h.mountHandler = f
HandleMount(h, f) == [h EXCEPT !.mountHandler = f]

\* h.renderHandler = f
HandleRender(h, f) == [h EXCEPT !.renderHandler = f]

\* h.eventHandlers[t] = handler
HandleEvent(h, t, handler) ==
    [h EXCEPT !.eventHandlers = Put(@, t, handler)]

\* A HandleSelf that writes to the event registry.
HandleSelfAsEvent(h, t, handler) ==
    [h EXCEPT !.eventHandlers = Put(@, t, handler)]

\* h.selfHandlers[t] = handler
HandleSelf(h, t, handler) ==
    [h EXCEPT !.selfHandlers = Put(@, t, handler)]

\* The result of a lookup: the handler and the error.
Found(handler) == [handler |-> handler, err |-> "nil"]
NotFound == [handler |-> "nil", err |-> "ErrNoEventHandler"]

\* handler, ok := h.eventHandlers[t]; if !ok { return nil, fmt.Errorf(
\*     "no event handler for %s: %w", t, ErrNoEventHandler) }
getEventOf(h, t) ==
    IF t \in DOMAIN h.eventHandlers THEN Found(h.eventHandlers[t])
    ELSE NotFound

\* handler, ok := h.selfHandlers[t]; if !ok { ... ErrNoEventHandler }
getSelf(h, t) ==
    IF t \in DOMAIN h.selfHandlers THEN Found(h.selfHandlers[t])
    ELSE NotFound

NoLookup == [kind |-> "none", t |-> "", res |-> NotFound]

\* A component call that has not been made.
NoCall == [kind |-> "none", event |-> <<>>,
           res |-> [state |-> "nil", err |-> "nil"]]

\* page.NewComponent: the component's id, its State after Mount and its
\* empty registries.
NewComponent ==
    [id |-> <<"a">>, State |-> "nil", generic |-> FALSE,
     eventHandlers |-> EmptyMap, selfHandlers |-> EmptyMap]

\* Event types and handlers the application registers.
RegTypes == {"ta", "tb"}
RegHandlers == {"f", "g"}

---------------------------------------------------------------------------
WSInit ==
    /\ pc = "Get" /\ pidx = 1 /\ retErr = Nil /\ logged = FALSE
    /\ errorCalls = 0 /\ mounts = 0
    /\ exitBranch = "none" /\ retCtx = FALSE /\ recvErr = Nil
    /\ wlog = <<>>
    /\ rpc = "idle" /\ m = NoMsg /\ nread = 0 /\ outcome = "none"
    /\ nRender = 0 /\ nUpdate = 0 /\ nAck = 0 /\ frame = "none"
    /\ sockets = {} /\ connected = FALSE /\ assigns = NoState
    /\ latestRender = NoRender /\ msgs = <<>> /\ closeStatus = "none"
    /\ slow = FALSE
    /\ internalErrors = <<>> /\ eventErrors = <<>> /\ chClosed = FALSE
    /\ ctxDone = FALSE /\ wire = <<>> /\ connectFailed = FALSE
    /\ wfailed = FALSE /\ eventHandlers = {Registered}

\* No stateless request has been made.
HTTPInit ==
    /\ hpc = "idle" /\ hreq = NoRequest /\ hpidx = 1 /\ hlog = <<>>
    /\ hresp = NoResponse
    /\ hAssigns = NoState /\ hLatestRender = NoRender /\ hConnected = FALSE
    /\ session = "untouched" /\ nreq = 0 /\ nredirects = 0

\* No constructor has been called.
CfgInit ==
    /\ cpc = "idle" /\ ckind = "none" /\ copts = <<>> /\ capplied = <<>>
    /\ cresult = "none"

\* No scoped name has been asked for.
ScopeIdle == sargs = <<>> /\ sout = <<>>

\* No registration has been logged and nothing has been looked up.
RegIdle == rlog = <<>> /\ rgot = NoLookup

\* A component without handlers that has not been called.
CompInit == comp = NewComponent /\ cret = "none" /\ clast = NoCall

\* The application's handler has a mount and a render handler.
AppHandler == HandleRender(HandleMount(NewHandler, "app"), "app")

Init ==
    /\ WSInit /\ HTTPInit /\ CfgInit /\ ScopeIdle
    /\ bh = AppHandler /\ RegIdle /\ CompInit

---------------------------------------------------------------------------
\* serveWS up to the call of _serveWS

\* session, err := h.sessionStore.Get(r)
ServeWSGet ==
    /\ pc = "Get"
    /\ \E ok \in BOOLEAN :
         IF ok THEN pc' = "Accept" /\ errorCalls' = errorCalls
         ELSE pc' = "Done" /\ errorCalls' = errorCalls + 1
    /\ UNCHANGED <<pidx, retErr, logged, mounts, exitBranch, retCtx, recvErr,
                 wlog>>
    /\ UNCHANGED <<readVars, sockVars, chanVars, envVars>>
    /\ UNCHANGED notWS

\* c, err := websocket.Accept(w, r, nil); defer c.Close(...)
ServeWSAccept ==
    /\ pc = "Accept"
    /\ \E ok \in BOOLEAN :
         IF ok THEN pc' = "Connect" /\ errorCalls' = errorCalls
                    /\ closeStatus' = "open"
         ELSE pc' = "Done" /\ errorCalls' = errorCalls + 1
              /\ closeStatus' = closeStatus
    /\ UNCHANGED <<pidx, retErr, logged, mounts, exitBranch, retCtx, recvErr,
                 wlog>>
    /\ UNCHANGED <<sockets, connected, assigns, latestRender, msgs, slow>>
    /\ UNCHANGED <<readVars, chanVars, envVars>>
    /\ UNCHANGED notWS

\* What serveWS does with the result of writing the connect event: the
\* position it goes to.  The result of writeTimeout is discarded.
AfterConnect(res) == "Register"

\* writeTimeout(ctx, time.Second*5, c, Event{T: EventConnect})
ServeWSConnect ==
    /\ pc = "Connect"
    /\ \E res \in WriteResults :
         /\ pc' = AfterConnect(res)
         /\ IF res = "ok"
            THEN /\ wire' = Append(wire, [t |-> EventConnect, id |-> 0, src |-> 0])
                 /\ connectFailed' = FALSE
            ELSE /\ wire' = wire
                 /\ connectFailed' = TRUE
    /\ UNCHANGED <<pidx, retErr, logged, errorCalls, mounts, exitBranch, retCtx,
                 recvErr, wlog>>
    /\ UNCHANGED <<ctxDone, wfailed, eventHandlers>>
    /\ UNCHANGED <<readVars, sockVars, chanVars>>
    /\ UNCHANGED notWS

---------------------------------------------------------------------------
\* Shared fragments

\* sock.Send(ev): the effect on the queue and, through closeSlow, on the
\* websocket.
Send(ev) ==
    /\ msgs' = SendQueue(msgs, ev)
    /\ slow' = (slow \/ SendSlow(msgs))
    /\ closeStatus' = IF SendSlow(msgs) THEN closeSlow(closeStatus) ELSE closeStatus

\* RenderSocket succeeded, then sock.UpdateRender(render): the patch against
\* the previous snapshot is sent when the trees differ, and the snapshot is
\* replaced.
RenderAndUpdate ==
    LET tree == Render(assigns) IN
    /\ latestRender' = tree
    /\ IF PatchNeeded(latestRender, tree)
       THEN Send(PatchEvent)
       ELSE UNCHANGED <<msgs, slow, closeStatus>>

\* A call _serveWS makes before the write loop, on the connected socket:
\* the handler (the i-th param handler for "Params"), the socket's Connected
\* flag at the call and whether the call succeeded.
Call(op, i, ok) == [op |-> op, i |-> i, connected |-> connected, ok |-> ok]

\* A return that leaves the socket registered (no deferred DeleteSocket).
ReturnRegistered(err, branch) ==
    /\ pc' = "Returned"
    /\ retErr' = err
    /\ sockets' = sockets
    /\ exitBranch' = branch
    /\ retCtx' = ctxDone

\* A return statement that falls through into the write loop.
ReturnIntoLoop(err, branch) ==
    /\ pc' = "Loop"
    /\ retErr' = err
    /\ sockets' = DeleteSocket(sockets, Sock)
    /\ exitBranch' = branch
    /\ retCtx' = ctxDone

\* A return of _serveWS with value err; the deferred h.DeleteSocket(sock)
\* runs before the caller continues.
Return(err, branch) ==
    /\ pc' = "Returned"
    /\ retErr' = err
    /\ sockets' = DeleteSocket(sockets, Sock)
    /\ exitBranch' = branch
    /\ retCtx' = ctxDone

---------------------------------------------------------------------------
\* _serveWS before the write loop

\* sock := NewHTTPSocket(session, h, true); sock.assignWS(c);
\* h.AddSocket(sock); defer h.DeleteSocket(sock); make the two channels;
\* go func() { ... }()
Register ==
    /\ pc = "Register"
    /\ pc' = "Mount"
    /\ connected' = TRUE
    /\ sockets' = AddSocket(sockets, Sock)
    /\ rpc' = "read"
    /\ UNCHANGED <<pidx, retErr, logged, errorCalls, mounts, exitBranch, retCtx,
                 recvErr, wlog>>
    /\ UNCHANGED <<m, nread, outcome, nRender, nUpdate, nAck, frame>>
    /\ UNCHANGED <<assigns, latestRender, msgs, closeStatus, slow>>
    /\ UNCHANGED <<chanVars, envVars>>
    /\ UNCHANGED notWS

\* data, err := h.Mount()(ctx, sock); sock.Assign(data)
Mount ==
    /\ pc = "Mount"
    /\ mounts' = mounts + 1
    /\ \E ok \in BOOLEAN :
         /\ wlog' = Append(wlog, Call("Mount", 0, ok))
         /\ IF ok
            THEN /\ assigns' = MountState
                 /\ pc' = "Params"
                 /\ UNCHANGED <<retErr, sockets, exitBranch, retCtx>>
            ELSE /\ Return(Err("mount", "app"), "mount")
                 /\ assigns' = assigns
    /\ UNCHANGED <<pidx, logged, errorCalls, recvErr>>
    /\ UNCHANGED <<connected, latestRender, msgs, closeStatus, slow>>
    /\ UNCHANGED <<readVars, chanVars, envVars>>
    /\ UNCHANGED notWS

\* for _, ph := range h.Params() { data, err := ph(...); sock.Assign(data) }
\* One iteration; the loop is left when every handler has run.
Params ==
    /\ pc = "Params"
    /\ IF pidx > NumParams
       THEN /\ pc' = "Render"
            /\ UNCHANGED <<pidx, retErr, sockets, assigns, exitBranch, retCtx,
                           wlog>>
       ELSE \E ok \in BOOLEAN :
              /\ wlog' = Append(wlog, Call("Params", pidx, ok))
              /\ IF ok
                 THEN /\ assigns' = ParamState
                      /\ pidx' = pidx + 1
                      /\ UNCHANGED <<pc, retErr, sockets, exitBranch, retCtx>>
                 ELSE /\ Return(Err("params", "app"), "params")
                      /\ UNCHANGED <<pidx, assigns>>
    /\ UNCHANGED <<logged, errorCalls, mounts, recvErr>>
    /\ UNCHANGED <<connected, latestRender, msgs, closeStatus, slow>>
    /\ UNCHANGED <<readVars, chanVars, envVars>>
    /\ UNCHANGED notWS

\* render, err := RenderSocket(ctx, h, sock); sock.UpdateRender(render)
FirstRender ==
    /\ pc = "Render"
    /\ \E ok \in BOOLEAN :
         /\ wlog' = Append(wlog, Call("Render", 0, ok))
         /\ IF ok
            THEN /\ RenderAndUpdate
                 /\ pc' = "Loop"
                 /\ UNCHANGED <<retErr, sockets, exitBranch, retCtx>>
            ELSE /\ Return(Err("render", "app"), "render")
                 /\ UNCHANGED <<latestRender, msgs, closeStatus, slow>>
    /\ UNCHANGED <<pidx, logged, errorCalls, mounts, recvErr>>
    /\ UNCHANGED <<connected, assigns>>
    /\ UNCHANGED <<readVars, chanVars, envVars>>
    /\ UNCHANGED notWS

---------------------------------------------------------------------------
\* _serveWS: the write loop (for { select { ... } })

\* A failed write that is only recorded: the loop goes on.
OnWriteErrorContinue(res, branch) ==
    /\ UNCHANGED <<pc, retErr, sockets, exitBranch, retCtx>>
    /\ wfailed' = TRUE

\* if err := writeTimeout(...); err != nil {
\*     return fmt.Errorf("writing to socket error: %w", err) }
OnWriteError(res, branch) ==
    /\ Return(Err("write", res), branch)
    /\ wfailed' = TRUE

\* A return of the wrapped nil itself.
InternalReturnNil(readErr, marshalErr) == marshalErr

\* The value returned after a fatal error of the read goroutine was received
\* and the error event was written.  readErr is the received error and
\* marshalErr the result of json.Marshal(err.Error()), declared with := in
\* the same block, so that the err wrapped by the return is marshalErr.
InternalReturn(readErr, marshalErr) == Err("internal", marshalErr.cause)

\* A read goroutine that leaves the message after a failed render.
AfterSendSkipAck(at) ==
    CASE at = "sendRead"   -> "close"
      [] at = "sendDecode" -> "read"
      [] at = "sendRender" -> "read"
      [] at = "sendEvent"  -> "render"

\* A read goroutine that gives up the message once its handler's error was
\* taken.
AfterSendDropMessage(at) ==
    CASE at = "sendRead"   -> "close"
      [] at = "sendDecode" -> "read"
      [] at = "sendRender" -> "ack"
      [] at = "sendEvent"  -> "read"

\* Where the read goroutine continues once its send on a channel was taken.
AfterSend(at) ==
    CASE at = "sendRead"   -> "close"
      [] at = "sendDecode" -> "read"
      [] at = "sendRender" -> "ack"
      [] at = "sendEvent"  -> "render"

\* case msg := <-sock.msgs:
LoopMsg ==
    /\ pc = "Loop"
    /\ msgs # <<>>
    /\ msgs' = Tail(msgs)
    /\ \E res \in WriteResults :
         IF res = "ok"
         THEN /\ wire' = Append(wire, Head(msgs))
              /\ UNCHANGED <<pc, retErr, sockets, wfailed, exitBranch, retCtx>>
         ELSE /\ OnWriteError(res, "msgs")
              /\ wire' = wire
    /\ UNCHANGED <<pidx, logged, errorCalls, mounts, recvErr, wlog>>
    /\ UNCHANGED <<connected, assigns, latestRender, closeStatus, slow>>
    /\ UNCHANGED <<ctxDone, connectFailed, eventHandlers>>
    /\ UNCHANGED <<readVars, chanVars>>
    /\ UNCHANGED notWS

\* case ee := <-eventErrors:
LoopEventError ==
    /\ pc = "Loop"
    /\ eventErrors # <<>>
    /\ eventErrors' = <<>>
    /\ rpc' = AfterSend(rpc)
    /\ \E res \in WriteResults :
         IF res = "ok"
         THEN /\ wire' = Append(wire, [t |-> EventError, id |-> 0,
                                       src |-> Head(eventErrors).src])
              /\ UNCHANGED <<pc, retErr, sockets, wfailed, exitBranch, retCtx>>
         ELSE /\ OnWriteError(res, "eventErrors")
              /\ wire' = wire
    /\ UNCHANGED <<pidx, logged, errorCalls, mounts, recvErr, wlog>>
    /\ UNCHANGED <<m, nread, outcome, nRender, nUpdate, nAck, frame>>
    /\ UNCHANGED <<connected, assigns, latestRender, msgs, closeStatus, slow>>
    /\ UNCHANGED <<internalErrors, chClosed>>
    /\ UNCHANGED <<ctxDone, connectFailed, eventHandlers>>
    /\ UNCHANGED notWS

\* case err := <-internalErrors:  (the read goroutine closes the channel
\* only after its read error was received here, and this branch then
\* returns, so the loop never receives from the closed channel)
LoopInternalError ==
    /\ pc = "Loop"
    /\ internalErrors # <<>>
    /\ internalErrors' = <<>>
    /\ rpc' = AfterSend(rpc)
    /\ \E res \in WriteResults :
         IF res = "ok"
         THEN /\ wire' = Append(wire, [t |-> EventError, id |-> 0, src |-> 0])
              /\ Return(InternalReturn(Head(internalErrors), Nil), "internalErrors")
              /\ wfailed' = wfailed
         ELSE /\ OnWriteError(res, "internalErrors")
              /\ wire' = wire
    /\ recvErr' = Head(internalErrors)
    /\ UNCHANGED <<pidx, logged, errorCalls, mounts, wlog>>
    /\ UNCHANGED <<m, nread, outcome, nRender, nUpdate, nAck, frame>>
    /\ UNCHANGED <<connected, assigns, latestRender, msgs, closeStatus, slow>>
    /\ UNCHANGED <<eventErrors, chClosed>>
    /\ UNCHANGED <<ctxDone, connectFailed, eventHandlers>>
    /\ UNCHANGED notWS

\* case <-ctx.Done(): return nil
LoopCtxDone ==
    /\ pc = "Loop"
    /\ ctxDone
    /\ Return(Nil, "ctx")
    /\ UNCHANGED <<pidx, logged, errorCalls, mounts, recvErr, wlog>>
    /\ UNCHANGED <<connected, assigns, latestRender, msgs, closeStatus, slow>>
    /\ UNCHANGED <<readVars, chanVars, envVars>>
    /\ UNCHANGED notWS

\* serveWS after _serveWS returned: the errors.Is / CloseStatus switch, then
\* the deferred c.Close(websocket.StatusInternalError, "").
ServeWSExit ==
    /\ pc = "Returned"
    /\ pc' = "Done"
    /\ logged' = Logs(retErr)
    /\ closeStatus' = Close(closeStatus, "StatusInternalError")
    /\ UNCHANGED <<pidx, retErr, errorCalls, mounts, exitBranch, retCtx, recvErr,
                 wlog>>
    /\ UNCHANGED <<sockets, connected, assigns, latestRender, msgs, slow>>
    /\ UNCHANGED <<readVars, chanVars, envVars>>
    /\ UNCHANGED notWS

---------------------------------------------------------------------------
\* _serveWS: the read goroutine (go func() { for { ... } }())

\* The peer can deliver a frame: the websocket is open, the context live and
\* the peer has frames left.
CanRead == closeStatus = "open" /\ ~ctxDone /\ nread < MaxMsgs

\* t, d, err := c.Read(ctx); if err != nil { internalErrors <- err; break }
ReadFail ==
    /\ rpc = "read"
    /\ \E cause \in ReadErrors : internalErrors' = <<Err("read", cause)>>
    /\ rpc' = "sendRead"
    /\ UNCHANGED <<m, nread, outcome, nRender, nUpdate, nAck, frame>>
    /\ UNCHANGED <<eventErrors, chClosed>>
    /\ UNCHANGED <<mainVars, sockVars, envVars>>
    /\ UNCHANGED notWS

\* case websocket.MessageText with a decodable payload: var m Event
ReadText ==
    /\ rpc = "read"
    /\ CanRead
    /\ \E t \in InboundTypes : m' = [t |-> t, id |-> nread + 1]
    /\ nread' = nread + 1
    /\ rpc' = "dispatch"
    /\ frame' = MessageText
    /\ outcome' = "none"
    /\ nRender' = 0 /\ nUpdate' = 0 /\ nAck' = 0
    /\ UNCHANGED <<mainVars, sockVars, chanVars, envVars>>
    /\ UNCHANGED notWS

\* case websocket.MessageText, json.Unmarshal fails:
\* internalErrors <- err; break   (the break leaves the switch)
ReadUndecodable ==
    /\ rpc = "read"
    /\ CanRead
    /\ nread' = nread + 1
    /\ m' = NoMsg
    /\ internalErrors' = <<Err("decode", "json")>>
    /\ rpc' = "sendDecode"
    /\ frame' = MessageText
    /\ outcome' = "none"
    /\ nRender' = 0 /\ nUpdate' = 0 /\ nAck' = 0
    /\ UNCHANGED <<eventErrors, chClosed>>
    /\ UNCHANGED <<mainVars, sockVars, envVars>>
    /\ UNCHANGED notWS

\* A binary frame that is decoded and dispatched like a text frame.
ReadBinaryAsText ==
    /\ rpc = "read"
    /\ CanRead
    /\ \E t \in InboundTypes : m' = [t |-> t, id |-> nread + 1]
    /\ nread' = nread + 1
    /\ frame' = MessageBinary
    /\ rpc' = "dispatch"
    /\ outcome' = "none"
    /\ nRender' = 0 /\ nUpdate' = 0 /\ nAck' = 0
    /\ UNCHANGED <<mainVars, sockVars, chanVars, envVars>>
    /\ UNCHANGED notWS

\* case websocket.MessageBinary: log.Println("binary messages unhandled")
\* and the for loop reads the next frame.
ReadBinary ==
    /\ rpc = "read"
    /\ CanRead
    /\ nread' = nread + 1
    /\ frame' = MessageBinary
    /\ UNCHANGED <<rpc, m, outcome, nRender, nUpdate, nAck>>
    /\ UNCHANGED <<mainVars, sockVars, chanVars, envVars>>
    /\ UNCHANGED notWS

\* h.CallParams(ctx, sock, m): the results it can have.  A param handler
\* returns any error, ErrNoEventHandler included.
CallParams == {"ok", "ErrNoEventHandler", "error"}

\* h.CallEvent(ctx, t, sock, m): the results it can have; getEvent decides
\* whether a handler runs.
CallEvent(t) ==
    IF getEvent(t) = "ErrNoEventHandler" THEN {"ErrNoEventHandler"}
    ELSE {"ok", "error"}

\* An error switch without the ErrNoEventHandler case.
ErrorSwitchAlwaysQueue(res) == "eventErrors"

\* An error switch that only logs.
ErrorSwitchAlwaysLog(res) == "log"

\* switch { case errors.Is(err, ErrNoEventHandler): log.Println(...)
\*          default: eventErrors <- ErrorEvent{Source: m, Err: err.Error()} }
ErrorSwitch(res) == IF res = "ErrNoEventHandler" THEN "log" ELSE "eventErrors"

\* switch m.T { case EventParams: h.CallParams ... default: h.CallEvent ... }
Dispatch ==
    /\ rpc = "dispatch"
    /\ \E res \in (IF m.t = EventParams THEN CallParams ELSE CallEvent(m.t)) :
         /\ outcome' = res
         /\ IF res = "ok"
            THEN /\ \E s \in (IF m.t = EventParams THEN {ParamState}
                              ELSE EventStates) : assigns' = s
                 /\ rpc' = "render"
                 /\ eventErrors' = eventErrors
            ELSE /\ assigns' = assigns
                 /\ IF ErrorSwitch(res) = "eventErrors"
                    THEN /\ eventErrors' = <<[src |-> m.id]>>
                         /\ rpc' = "sendEvent"
                    ELSE /\ eventErrors' = eventErrors
                         /\ rpc' = "render"
    /\ UNCHANGED <<m, nread, nRender, nUpdate, nAck, frame>>
    /\ UNCHANGED <<sockets, connected, latestRender, msgs, closeStatus, slow>>
    /\ UNCHANGED <<internalErrors, chClosed>>
    /\ UNCHANGED <<mainVars, envVars>>
    /\ UNCHANGED notWS

\* render, err := RenderSocket(ctx, h, sock)
\* if err != nil { internalErrors <- ... } else { sock.UpdateRender(render) }
ReaderRender ==
    /\ rpc = "render"
    /\ nRender' = nRender + 1
    /\ \E ok \in BOOLEAN :
         IF ok
         THEN /\ RenderAndUpdate
              /\ nUpdate' = nUpdate + 1
              /\ rpc' = "ack"
              /\ internalErrors' = internalErrors
         ELSE /\ internalErrors' = <<Err("render", "app")>>
              /\ rpc' = "sendRender"
              /\ UNCHANGED <<nUpdate, latestRender, msgs, closeStatus, slow>>
    /\ UNCHANGED <<m, nread, outcome, nAck, frame>>
    /\ UNCHANGED <<sockets, connected, assigns>>
    /\ UNCHANGED <<eventErrors, chClosed>>
    /\ UNCHANGED <<mainVars, envVars>>
    /\ UNCHANGED notWS

\* sock.Send(EventAck, nil, WithID(m.ID))
ReaderAck ==
    /\ rpc = "ack"
    /\ Send([t |-> EventAck, id |-> m.id, src |-> 0])
    /\ nAck' = IF SendSlow(msgs) THEN nAck ELSE nAck + 1
    /\ rpc' = "read"
    /\ UNCHANGED <<m, nread, outcome, nRender, nUpdate, frame>>
    /\ UNCHANGED <<sockets, connected, assigns, latestRender>>
    /\ UNCHANGED <<mainVars, chanVars, envVars>>
    /\ UNCHANGED notWS

\* close(internalErrors); close(eventErrors)
ReaderClose ==
    /\ rpc = "close"
    /\ chClosed' = TRUE
    /\ rpc' = "exited"
    /\ UNCHANGED <<m, nread, outcome, nRender, nUpdate, nAck, frame>>
    /\ UNCHANGED <<internalErrors, eventErrors>>
    /\ UNCHANGED <<mainVars, sockVars, envVars>>
    /\ UNCHANGED notWS

\* The connection's context is cancelled (by the server or because the
\* request ended).
Cancel ==
    /\ closeStatus # "none"
    /\ ~ctxDone
    /\ ctxDone' = TRUE
    /\ UNCHANGED <<wire, connectFailed, wfailed, eventHandlers>>
    /\ UNCHANGED <<mainVars, readVars, sockVars, chanVars>>
    /\ UNCHANGED notWS

---------------------------------------------------------------------------
Next ==
    \/ ServeWSGet \/ ServeWSAccept \/ ServeWSConnect
    \/ Register \/ Mount \/ Params \/ FirstRender
    \/ LoopMsg \/ LoopEventError \/ LoopInternalError \/ LoopCtxDone
    \/ ServeWSExit
    \/ ReadFail \/ ReadText \/ ReadUndecodable \/ ReadBinary
    \/ Dispatch \/ ReaderRender \/ ReaderAck \/ ReaderClose
    \/ Cancel

Spec == Init /\ [][Next]_vars

\* The main goroutine (serveWS and _serveWS) keeps running while it can
\* take a step: handlers return, writes end within their timeout and the
\* select takes a ready case.
MainStep ==
    \/ ServeWSGet \/ ServeWSAccept \/ ServeWSConnect
    \/ Register \/ Mount \/ Params \/ FirstRender
    \/ LoopMsg \/ LoopEventError \/ LoopInternalError \/ LoopCtxDone
    \/ ServeWSExit

FairSpec == Spec /\ WF_vars(MainStep)

---------------------------------------------------------------------------
\* serveHTTP: the stateless path

\* An entry of hlog: a call made by serveHTTP and its argument.
Step(op, arg) == [op |-> op, arg |-> arg]

\* A request is never taken to carry the marker.
HasMarkerNever(req) == FALSE

\* r.URL.Query().Get("live-repair") != ""
HasMarker(req) == req.repair # ""

\* q.Set("live-repair", "1"); r.URL.RawQuery = q.Encode(); r.URL.String()
RepairURL(req) == [req EXCEPT !.repair = "1"]

\* A registration that puts the handler first.
HandleParamsFirst(handlers, handler) == <<handler>> \o handlers

\* b.paramsHandlers = append(b.paramsHandlers, handler)
HandleParams(handlers, handler) == Append(handlers, handler)

\* h.Params() after the application has registered handlers 1..n, in this
\* order, through HandleParams.
RECURSIVE ParamsAfter(_)
ParamsAfter(n) ==
    IF n = 0 THEN <<>> ELSE HandleParams(ParamsAfter(n - 1), n)

ParamHandlers == ParamsAfter(NumParams)

\* The state a param handler returns.
ParamResult(handler) == <<ParamState, handler>>

\* html.Render(&rendered, render): the document for a tree.
HtmlRender(tree) == <<"<!doctype>">> \o tree

\* A constructor that registers the socket.
NewHTTPSocketRegistered(live, sock) == live \cup {sock}

\* The live set after NewHTTPSocket(session, h, false): the constructor
\* does not register the socket.
NewHTTPSocket(live, sock) == live

\* The socket of a stateless request.
HSock == "http"

\* The client sends a request of its own (ServeHTTP without an Upgrade
\* header calls serveHTTP).
HTTPRequest ==
    /\ hpc = "idle"
    /\ nreq < MaxRequests
    /\ \E req \in Requests : hreq' = req
    /\ hpc' = "Get"
    /\ hpidx' = 1 /\ hlog' = <<>> /\ hresp' = NoResponse
    /\ nreq' = nreq + 1
    /\ nredirects' = 0
    /\ UNCHANGED <<hAssigns, hLatestRender, hConnected, session>>
    /\ UNCHANGED <<sockVars, notHTTP>>

\* The client follows the redirect it was answered with.
HTTPFollow ==
    /\ hpc = "idle"
    /\ hresp.status = "307"
    /\ nredirects <= MaxRequests
    /\ hreq' = hresp.location
    /\ hpc' = "Get"
    /\ hpidx' = 1 /\ hlog' = <<>> /\ hresp' = NoResponse
    /\ UNCHANGED <<hAssigns, hLatestRender, hConnected, session, nreq,
                   nredirects>>
    /\ UNCHANGED <<sockVars, notHTTP>>

\* err.Error() as a response body.
ErrorText(err) == <<"text", err.op, err.cause>>

\* The results the handler's mount handler can have: the default one
\* returns nil, nil.
MountResults(h) ==
    IF h.mountHandler = "default" THEN {"ok"} ELSE {"ok", "app"}

\* The state a successful mount handler returns.
MountData(h) == IF h.mountHandler = "default" THEN NoState ELSE MountState

\* A default render handler that renders nothing, without error.
RenderResultsNoError(h) ==
    IF h.renderHandler = "default" THEN {"ok"} ELSE {"ok", "app"}

\* The results RenderSocket can have: the default render handler returns
\* nil, ErrNoRenderer.
RenderResults(h) ==
    IF h.renderHandler = "default" THEN {"ErrNoRenderer"} ELSE {"ok", "app"}

\* An error that reaches no Error handler.
FailSilently(log, err) ==
    /\ hlog' = log
    /\ hresp' = [hresp EXCEPT !.status = "500"]
    /\ hpc' = "idle"

\* h.Error()(ctx, err); return   (the default error handler:
\* w.WriteHeader(500); w.Write([]byte(err.Error())))
Fail(log, err) ==
    /\ hlog' = Append(log, Step("Error", err))
    /\ hresp' = [hresp EXCEPT !.status = "500", !.body = ErrorText(err)]
    /\ hpc' = "idle"

\* session, err := h.sessionStore.Get(r) and, on an error, the repair
\* branch; on success sock := NewHTTPSocket(session, h, false)
HTTPGet ==
    /\ hpc = "Get"
    /\ LET log == Append(hlog, Step("Get", hreq)) IN
       \E ok \in BOOLEAN :
         IF ok
         THEN /\ hlog' = log
              /\ hpc' = "Mount"
              /\ hConnected' = FALSE
              /\ hAssigns' = NoState
              /\ hLatestRender' = NoRender
              /\ sockets' = NewHTTPSocket(sockets, HSock)
              /\ UNCHANGED <<hresp, session, nredirects>>
         ELSE /\ IF HasMarker(hreq)
                 THEN /\ Fail(log, Err("session", "corrupted"))
                      /\ UNCHANGED <<session, nredirects>>
                 ELSE /\ hlog' = log \o <<Step("Clear", hreq),
                                           Step("Redirect", RepairURL(hreq))>>
                      /\ session' = "cleared"
                      /\ hresp' = [status |-> "307",
                                   location |-> RepairURL(hreq),
                                   body |-> NoBody]
                      /\ nredirects' = nredirects + 1
                      /\ hpc' = "idle"
              /\ UNCHANGED <<hAssigns, hLatestRender, hConnected, sockets>>
    /\ UNCHANGED <<hreq, hpidx, nreq>>
    /\ UNCHANGED <<connected, assigns, latestRender, msgs, closeStatus, slow>>
    /\ UNCHANGED notHTTP

\* data, err := h.Mount()(ctx, sock); sock.Assign(data)
HTTPMount ==
    /\ hpc = "Mount"
    /\ LET log == Append(hlog, Step("Mount", hConnected)) IN
       \E res \in MountResults(bh) :
         IF res = "ok"
         THEN /\ hlog' = Append(log, Step("Assign", MountData(bh)))
              /\ hAssigns' = MountData(bh)
              /\ hpc' = "Params"
              /\ hresp' = hresp
         ELSE /\ Fail(log, Err("mount", res))
              /\ hAssigns' = hAssigns
    /\ UNCHANGED <<hreq, hpidx, hLatestRender, hConnected, session, nreq,
                   nredirects>>
    /\ UNCHANGED <<sockVars, notHTTP>>

\* for _, ph := range h.Params() { data, err := ph(...); sock.Assign(data) }
\* One iteration; the loop is left when every handler has run.
HTTPParams ==
    /\ hpc = "Params"
    /\ IF hpidx > Len(ParamHandlers)
       THEN /\ hpc' = "Render"
            /\ UNCHANGED <<hpidx, hlog, hresp, hAssigns>>
       ELSE LET ph == ParamHandlers[hpidx]
                log == Append(hlog, Step("Params", ph)) IN
            \E ok \in BOOLEAN :
              IF ok
              THEN /\ hlog' = Append(log, Step("Assign", ParamResult(ph)))
                   /\ hAssigns' = ParamResult(ph)
                   /\ hpidx' = hpidx + 1
                   /\ UNCHANGED <<hpc, hresp>>
              ELSE /\ Fail(log, Err("params", "app"))
                   /\ UNCHANGED <<hpidx, hAssigns>>
    /\ UNCHANGED <<hreq, hLatestRender, hConnected, session, nreq, nredirects>>
    /\ UNCHANGED <<sockVars, notHTTP>>

\* render, err := RenderSocket(ctx, h, sock); sock.UpdateRender(render)
HTTPRender ==
    /\ hpc = "Render"
    /\ LET log == Append(hlog, Step("Render", hAssigns)) IN
       \E res \in RenderResults(bh) :
         IF res = "ok"
         THEN /\ hlog' = Append(log, Step("UpdateRender", Render(hAssigns)))
              /\ hLatestRender' = Render(hAssigns)
              /\ hpc' = "Save"
              /\ hresp' = hresp
         ELSE /\ Fail(log, Err("render", res))
              /\ hLatestRender' = hLatestRender
    /\ UNCHANGED <<hreq, hpidx, hAssigns, hConnected, session, nreq,
                   nredirects>>
    /\ UNCHANGED <<sockVars, notHTTP>>

\* html.Render(&rendered, render); h.sessionStore.Save(w, r, session)
HTTPSave ==
    /\ hpc = "Save"
    /\ LET log == Append(hlog, Step("Save", hreq)) IN
       \E ok \in BOOLEAN :
         IF ok
         THEN /\ hlog' = log
              /\ session' = "saved"
              /\ hpc' = "Write"
              /\ hresp' = hresp
         ELSE /\ Fail(log, Err("save", "store"))
              /\ session' = session
    /\ UNCHANGED <<hreq, hpidx, hAssigns, hLatestRender, hConnected, nreq,
                   nredirects>>
    /\ UNCHANGED <<sockVars, notHTTP>>

\* w.WriteHeader(200); io.Copy(w, &rendered)
HTTPWrite ==
    /\ hpc = "Write"
    /\ hlog' = Append(hlog, Step("WriteHeader", "200"))
    /\ hresp' = [status |-> "200", location |-> NoRequest,
                 body |-> HtmlRender(hLatestRender)]
    /\ hpc' = "idle"
    /\ UNCHANGED <<hreq, hpidx, hAssigns, hLatestRender, hConnected, session,
                   nreq, nredirects>>
    /\ UNCHANGED <<sockVars, notHTTP>>

HTTPNext ==
    \/ HTTPRequest \/ HTTPFollow \/ HTTPGet \/ HTTPMount \/ HTTPParams
    \/ HTTPRender \/ HTTPSave \/ HTTPWrite

\* Stateless requests only.
HTTPSpec == Init /\ [][HTTPNext]_vars

\* Stateless requests served by a handler built without options: the
\* application has registered its param handlers only.
DefaultInit ==
    /\ WSInit /\ HTTPInit /\ CfgInit /\ ScopeIdle
    /\ bh = NewHandler /\ RegIdle /\ CompInit

\* h.HandleMount(f), between two requests
AppHandleMount ==
    /\ hpc = "idle"
    /\ bh.mountHandler = "default"
    /\ bh' = HandleMount(bh, "app")
    /\ UNCHANGED <<rlog, rgot>>
    /\ UNCHANGED notReg

\* h.HandleRender(f), between two requests
AppHandleRender ==
    /\ hpc = "idle"
    /\ bh.renderHandler = "default"
    /\ bh' = HandleRender(bh, "app")
    /\ UNCHANGED <<rlog, rgot>>
    /\ UNCHANGED notReg

DefaultNext ==
    \/ HTTPRequest \/ HTTPFollow \/ HTTPGet \/ HTTPMount \/ HTTPParams
    \/ HTTPRender \/ HTTPSave \/ HTTPWrite
    \/ AppHandleMount \/ AppHandleRender

DefaultSpec == DefaultInit /\ [][DefaultNext]_vars

\* Stateless requests interleaved with one stateful connection whose peer
\* sends no frame: the read goroutine only meets the end of the connection.
MixNext ==
    \/ HTTPRequest \/ HTTPFollow \/ HTTPGet \/ HTTPMount \/ HTTPParams
    \/ HTTPRender \/ HTTPSave \/ HTTPWrite
    \/ ServeWSGet \/ ServeWSAccept \/ ServeWSConnect
    \/ Register \/ Mount \/ Params \/ FirstRender
    \/ LoopInternalError \/ LoopCtxDone
    \/ ServeWSExit
    \/ ReadFail \/ ReaderClose \/ Cancel

MixSpec == Init /\ [][MixNext]_vars

---------------------------------------------------------------------------
\* Handler construction

\* What an option does: succeed, fail, or fail only when it is applied to
\* the HTTPHandler.
OptionKinds == {"ok", "fail", "failOnHTTP"}

\* The argument lists of a constructor.
OptionLists == UNION {[1..n -> OptionKinds] : n \in 0..NumOptions}

\* conf(h): whether the option succeeds on the target.
Apply(opt, target) ==
    opt = "ok" \/ (opt = "failOnHTTP" /\ target # "http")

\* The options applied to target so far.
AppliedTo(target) ==
    Cardinality({i \in DOMAIN capplied : capplied[i].target = target})

\* A constructor is called with a list of options.
NewHandlerCall ==
    /\ cpc = "idle"
    /\ \E kind \in {"base", "http"}, opts \in OptionLists :
         /\ ckind' = kind
         /\ copts' = opts
         /\ cpc' = IF kind = "base" THEN "apply" ELSE "newbase"
    /\ UNCHANGED <<capplied, cresult>>
    /\ UNCHANGED notCfg

\* if err := conf(h); err != nil { slog.Warn(...) }: the position after a
\* failing option; next is the position when the option succeeds.
BaseOnError(next) == next

\* NewHandler of the base handler: for _, conf := range configs { ... };
\* return h
BaseApply ==
    /\ cpc = "apply" /\ ckind = "base"
    /\ LET i == AppliedTo("base") + 1 IN
       IF i > Len(copts)
       THEN /\ cresult' = "handler"
            /\ cpc' = "done"
            /\ capplied' = capplied
       ELSE LET ok == Apply(copts[i], "base")
                after == IF ok THEN "apply" ELSE BaseOnError("apply") IN
            /\ capplied' = Append(capplied,
                                  [target |-> "base", i |-> i, ok |-> ok])
            /\ cpc' = IF after = "error" THEN "done" ELSE after
            /\ cresult' = IF after = "error" THEN "error" ELSE cresult
    /\ UNCHANGED <<ckind, copts>>
    /\ UNCHANGED notCfg

\* d, err := NewBaseHandler(configs...): the options are applied in order
\* to the base handler and the first failure is returned.
NewBaseHandlerApply ==
    /\ cpc = "newbase"
    /\ LET i == AppliedTo("base") + 1 IN
       IF i > Len(copts)
       THEN /\ cpc' = "apply"
            /\ UNCHANGED <<capplied, cresult>>
       ELSE LET ok == Apply(copts[i], "base") IN
            /\ capplied' = Append(capplied,
                                  [target |-> "base", i |-> i, ok |-> ok])
            /\ cpc' = IF ok THEN "newbase" ELSE "done"
            /\ cresult' = IF ok THEN cresult ELSE "error"
    /\ UNCHANGED <<ckind, copts>>
    /\ UNCHANGED notCfg

\* NewHandler of the HTTPHandler after NewBaseHandler:
\* for _, conf := range configs { if err := conf(h); err != nil {
\*     return nil, ... } }; return h, nil
HTTPApply ==
    /\ cpc = "apply" /\ ckind = "http"
    /\ LET i == AppliedTo("http") + 1 IN
       IF i > Len(copts)
       THEN /\ cresult' = "handler"
            /\ cpc' = "done"
            /\ capplied' = capplied
       ELSE LET ok == Apply(copts[i], "http") IN
            /\ capplied' = Append(capplied,
                                  [target |-> "http", i |-> i, ok |-> ok])
            /\ cpc' = IF ok THEN "apply" ELSE "done"
            /\ cresult' = IF ok THEN cresult ELSE "error"
    /\ UNCHANGED <<ckind, copts>>
    /\ UNCHANGED notCfg

CfgNext == NewHandlerCall \/ BaseApply \/ NewBaseHandlerApply \/ HTTPApply

ConfigSpec == Init /\ [][CfgNext]_vars

---------------------------------------------------------------------------
\* Component.Event

\* The characters of ids and event names: a letter and the hyphen.
Chars == {"a", "-"}

\* The strings of at most n characters.
Strings(n) == UNION {[1..k -> Chars] : k \in 0..n}

\* A scoped name without the separator.
EventNoSeparator(id, event) == id \o event

\* func (c *Component) Event(event string) string {
\*     return c.ID + "--" + event }
Event(id, event) == id \o <<"-", "-">> \o event

\* Two children (ids sargs[1], sargs[3]) and one event name for each
\* (sargs[2], sargs[4]).
ScopeInit ==
    /\ WSInit /\ HTTPInit /\ CfgInit
    /\ bh = AppHandler /\ RegIdle /\ CompInit
    /\ sargs \in Strings(MaxLen) \X Strings(MaxLen)
                \X Strings(MaxLen) \X Strings(MaxLen)
    /\ sout = <<>>

\* Both children scope their event name.
ScopeEvent ==
    /\ sout = <<>>
    /\ sout' = <<Event(sargs[1], sargs[2]), Event(sargs[3], sargs[4])>>
    /\ UNCHANGED sargs
    /\ UNCHANGED notScope

ScopeSpec == ScopeInit /\ [][ScopeEvent]_vars

---------------------------------------------------------------------------
\* BaseHandler: the registries

\* h.HandleEvent(t, handler)
RegHandleEvent ==
    /\ Len(rlog) < MaxRegs
    /\ \E t \in RegTypes, f \in RegHandlers :
         /\ bh' = HandleEvent(bh, t, f)
         /\ rlog' = Append(rlog, [kind |-> "event", t |-> t, handler |-> f])
    /\ rgot' = NoLookup
    /\ UNCHANGED notReg

\* h.HandleSelf(t, handler)
RegHandleSelf ==
    /\ Len(rlog) < MaxRegs
    /\ \E t \in RegTypes, f \in RegHandlers :
         /\ bh' = HandleSelf(bh, t, f)
         /\ rlog' = Append(rlog, [kind |-> "self", t |-> t, handler |-> f])
    /\ rgot' = NoLookup
    /\ UNCHANGED notReg

\* h.getEvent(t)
RegGetEvent ==
    /\ \E t \in RegTypes :
         rgot' = [kind |-> "event", t |-> t, res |-> getEventOf(bh, t)]
    /\ UNCHANGED <<bh, rlog>>
    /\ UNCHANGED notReg

\* h.getSelf(t)
RegGetSelf ==
    /\ \E t \in RegTypes :
         rgot' = [kind |-> "self", t |-> t, res |-> getSelf(bh, t)]
    /\ UNCHANGED <<bh, rlog>>
    /\ UNCHANGED notReg

RegNext == RegHandleEvent \/ RegHandleSelf \/ RegGetEvent \/ RegGetSelf

\* A handler built without options, then registrations and lookups.
RegInit ==
    /\ WSInit /\ HTTPInit /\ CfgInit /\ ScopeIdle
    /\ bh = NewHandler /\ RegIdle /\ CompInit

RegistrySpec == RegInit /\ [][RegNext]_vars

---------------------------------------------------------------------------
\* page.Component

\* Event names a component's handlers are registered for, the names it is
\* called with, the handlers (nil is a nil func) and what a handler returns.
CompEvents == {<<"a">>, <<"-">>}
CompHandlers == {"nil", "f"}
HandlerReturns == [state : {"s1", "s2"}, err : {"nil", "app"}]

\* handler := c.eventHandlers[event]: the zero value for a missing key.
Index(map, key) == IF key \in DOMAIN map THEN map[key] ELSE "nil"

\* c.State and the returned error when State is assigned before the
\* handler's error is looked at.
AfterHandlerAssignFirst(state, res) ==
    [State |-> res.state, ret |-> res.err]

\* state, err := handler(...); if err != nil { return err };
\* c.State = state; return nil
AfterHandler(state, res) ==
    IF res.err # "nil" THEN [State |-> state, ret |-> res.err]
    ELSE [State |-> res.state, ret |-> "nil"]

\* CallEvent / CallSelf on the registry handlers: c.State and the returned
\* error.
ComponentCall(c, handlers, event, res) ==
    IF Index(handlers, event) = "nil"
    THEN [State |-> c.State, ret |-> "ErrNoEventHandler"]
    ELSE AfterHandler(c.State, res)

\* c.HandleEvent(event, handler)
CompHandleEvent ==
    /\ \E ev \in CompEvents, f \in CompHandlers :
         comp' = [comp EXCEPT !.eventHandlers = Put(@, ev, f)]
    /\ UNCHANGED <<cret, clast>>
    /\ UNCHANGED notComp

\* c.HandleSelf(event, handler): the generic Component also registers the
\* handler under the scoped name.
CompHandleSelf ==
    /\ \E ev \in CompEvents, f \in CompHandlers :
         comp' = [comp EXCEPT !.selfHandlers =
                    IF comp.generic
                    THEN Put(Put(@, ev, f), Event(comp.id, ev), f)
                    ELSE Put(@, ev, f)]
    /\ UNCHANGED <<cret, clast>>
    /\ UNCHANGED notComp

\* c.CallEvent(ctx, event, s, data)
CompCallEvent ==
    /\ \E ev \in CompEvents, res \in HandlerReturns :
         LET out == ComponentCall(comp, comp.eventHandlers, ev, res) IN
         /\ comp' = [comp EXCEPT !.State = out.State]
         /\ cret' = out.ret
         /\ clast' = [kind |-> "event", event |-> ev, res |-> res]
    /\ UNCHANGED notComp

\* c.CallSelf(ctx, event, s, data), with a plain or a scoped name
CompCallSelf ==
    /\ \E e \in CompEvents, res \in HandlerReturns :
         \E ev \in {e, Event(comp.id, e)} :
           LET out == ComponentCall(comp, comp.selfHandlers, ev, res) IN
           /\ comp' = [comp EXCEPT !.State = out.State]
           /\ cret' = out.ret
           /\ clast' = [kind |-> "self", event |-> ev, res |-> res]
    /\ UNCHANGED notComp

CompNext ==
    CompHandleEvent \/ CompHandleSelf \/ CompCallEvent \/ CompCallSelf

\* A new component of either kind (page.Component or the generic
\* Component[T]).
ComponentInit ==
    /\ WSInit /\ HTTPInit /\ CfgInit /\ ScopeIdle
    /\ bh = AppHandler /\ RegIdle
    /\ \E g \in BOOLEAN : comp = [NewComponent EXCEPT !.generic = g]
    /\ cret = "none" /\ clast = NoCall

ComponentSpec == ComponentInit /\ [][CompNext]_vars

---------------------------------------------------------------------------
TypeOK ==
    /\ pc \in {"Get", "Accept", "Connect", "Register", "Mount", "Params",
               "Render", "Loop", "Returned", "Done"}
    /\ rpc \in {"idle", "read", "dispatch", "render", "ack", "close", "exited",
                "sendRead", "sendDecode", "sendRender", "sendEvent"}
    /\ Len(msgs) <= MaxQueue
    /\ Len(internalErrors) <= 1 /\ Len(eventErrors) <= 1
    /\ sockets \subseteq {Sock}

---------------------------------------------------------------------------
\* Derived notions used by the properties

\* _serveWS has returned.
Returned == pc \in {"Returned", "Done"} /\ exitBranch # "none"

\* _serveWS returned from a branch of the write loop's select.
LoopBranches == {"msgs", "eventErrors", "internalErrors", "ctx"}

\* The error events on the wire whose source is the inbound message id.
ErrorEventsFor(id) ==
    {i \in DOMAIN wire : wire[i].t = EventError /\ wire[i].src = id}

---------------------------------------------------------------------------
\* C1: whatever return of _serveWS is taken, the socket that was added to
\* the live set has been removed when _serveWS has returned: the live set
\* never holds a socket whose _serveWS has returned.
C1_DeregisteredOnReturn == Returned => Sock \notin sockets

\* _serveWS has registered the socket, run the write loop and returned
\* because of a fatal error of the read goroutine.
C1_Witness ==
    /\ pc = "Returned" /\ exitBranch = "internalErrors"
    /\ connected /\ Sock \notin sockets

\* C2: if the write of the initial connect event fails or times out, the
\* connection is ended: the connected socket is not registered or mounted,
\* the read goroutine is not started and the write loop is not entered.
C2_ConnectFailureEndsConnection ==
    connectFailed =>
        /\ mounts = 0
        /\ rpc = "idle"
        /\ pc # "Loop"
        /\ Sock \notin sockets

\* C3: when the context is cancelled and the write loop's select ends
\* _serveWS, _serveWS returns no error and serveWS does not print the
\* "ws closed" log line, whichever branch of the select returned.
C3_CancelEndsCleanly ==
    (pc = "Done" /\ exitBranch \in LoopBranches /\ retCtx) =>
        (retErr = Nil /\ ~logged)

\* C4: when the read error received by the write loop carries a
\* normal-closure or going-away close code, that error is what serveWS
\* gets from _serveWS, and nothing is logged, whether the write of the
\* error event succeeded or failed.
C4_PeerCloseEndsCleanly ==
    (pc = "Done" /\ exitBranch = "internalErrors"
       /\ recvErr.cause \in {"normal", "goingaway"}) =>
        (retErr.cause = recvErr.cause /\ ~logged)

\* C5: a dispatch that fails with ErrNoEventHandler (params-changed or any
\* other type) puts nothing on eventErrors and nothing on internalErrors,
\* writes nothing to the client and leaves the write loop running; the read
\* goroutine goes on with the message (render, acknowledgement) and no
\* error event for the message is ever written.
C5_NoHandlerIsSwallowed ==
    /\ [][(rpc = "dispatch" /\ outcome' = "ErrNoEventHandler") =>
            /\ eventErrors' = eventErrors
            /\ internalErrors' = internalErrors
            /\ wire' = wire
            /\ pc' = pc
            /\ rpc' = "render"]_vars
    /\ [](outcome = "ErrNoEventHandler" =>
            /\ rpc # "sendEvent"
            /\ ErrorEventsFor(m.id) = {})

\* An event without handler was acknowledged and the read goroutine is
\* reading the next frame of the still open connection.
C5_Witness ==
    /\ outcome = "ErrNoEventHandler" /\ m.t = Unregistered
    /\ rpc = "read" /\ nAck = 1
    /\ pc = "Loop" /\ closeStatus = "open" /\ internalErrors = <<>>

\* C6: a handler error other than ErrNoEventHandler offers exactly one
\* ErrorEvent whose source is the inbound message on eventErrors and nothing
\* on internalErrors; the write loop that receives it writes it with type
\* error (or ends on a failed write) and the read goroutine goes on with
\* the message; at most one error event per message reaches the wire.
C6_HandlerErrorBecomesErrorEvent ==
    /\ [][(rpc = "dispatch" /\ outcome' = "error") =>
            /\ eventErrors' = <<[src |-> m.id]>>
            /\ internalErrors' = internalErrors
            /\ rpc' = "sendEvent"]_vars
    /\ [][(eventErrors # <<>> /\ eventErrors' = <<>>) =>
            /\ rpc' = "render"
            /\ \/ wire' = Append(wire, [t |-> EventError, id |-> 0,
                                        src |-> Head(eventErrors).src])
               \/ (wire' = wire /\ wfailed')]_vars
    /\ [](\A id \in 1..MaxMsgs : Cardinality(ErrorEventsFor(id)) <= 1)
    /\ [](outcome = "error" /\ rpc \in {"render", "ack", "read"} /\ ~wfailed
            => Cardinality(ErrorEventsFor(m.id)) = 1)

\* The error event of a failed handler is on the wire, the message was
\* acknowledged and the connection is open for the next frame.
C6_Witness ==
    /\ outcome = "error" /\ rpc = "read" /\ nAck = 1
    /\ Cardinality(ErrorEventsFor(m.id)) = 1
    /\ pc = "Loop" /\ closeStatus = "open"

FatalReported ==
    \/ rpc \in {"sendRead", "sendDecode"}
    \/ recvErr.op \in {"read", "decode"}

\* C8 as stated: a failed read or an undecodable message is always received
\* by the write loop, which returns an error; so when _serveWS has returned
\* after such a report, it returned from the internalErrors case with an
\* error.
C8_FatalAlwaysReceived ==
    (Returned /\ FatalReported) =>
        (exitBranch = "internalErrors" /\ retErr # Nil)

\* C8 amended: a failed read or an undecodable message reported while
\* _serveWS is running ends the connection: _serveWS eventually returns and
\* serveWS closes the websocket; when the write loop receives the error,
\* the value returned is a non-nil error.
C8_FatalEndsConnection ==
    /\ (rpc \in {"sendRead", "sendDecode"} /\ ~Returned) ~>
            (pc = "Done" /\ closeStatus # "open")
    /\ [](exitBranch = "internalErrors" => (retErr # Nil /\ recvErr # Nil))

\* An undecodable message was received by the write loop and ended the
\* connection.
C8_Witness ==
    /\ pc = "Done" /\ exitBranch = "internalErrors"
    /\ recvErr.op = "decode" /\ retErr # Nil /\ closeStatus # "open"

\* C9: once a write of the write loop has failed or timed out, _serveWS
\* has returned an error and nothing more is written to the connection,
\* whatever the read goroutine queues afterwards.
C9_WriteFailureIsFinal ==
    /\ [](wfailed => (Returned /\ retErr.op = "write"))
    /\ [][wfailed => wire' = wire]_vars

\* A write failed, _serveWS returned, and a message queued by the read
\* goroutine is left unwritten.
C9_Witness ==
    /\ wfailed /\ pc = "Done" /\ msgs # <<>>
    /\ rpc = "read" /\ nAck = 1

\* C10 as stated: when the write of a queued message times out, the
\* connection is closed with the policy-violation status.
C10_TimeoutClosesWithPolicyViolation ==
    (pc = "Done" /\ exitBranch = "msgs" /\ retErr.cause = "timeout") =>
        closeStatus = "StatusPolicyViolation"

\* C10 amended: a send on a full outbound queue calls closeSlow, which
\* closes an open websocket with the policy-violation status, and only
\* closeSlow closes with that status; a write of a queued message that
\* times out or fails makes _serveWS return, and without a full queue the
\* websocket is then closed by serveWS with the internal-error status; in
\* both cases the connection is not left open.
C10_SlowOrFailedWriteCloses ==
    /\ [][(Len(msgs) >= MaxQueue /\ rpc = "ack" /\ rpc' # rpc) =>
            /\ slow'
            /\ (closeStatus = "open" => closeStatus' = "StatusPolicyViolation")]_vars
    /\ [][(~slow /\ slow') =>
            (closeStatus = "open" => closeStatus' = "StatusPolicyViolation")]_vars
    /\ [](closeStatus = "StatusPolicyViolation" => slow)
    /\ []((pc = "Done" /\ exitBranch = "msgs" /\ ~slow) =>
            closeStatus = "StatusInternalError")
    /\ []((pc = "Done" /\ exitBranch # "none") => closeStatus # "open")

\* The queue was full when the read goroutine sent, closeSlow closed the
\* websocket, and the write loop ended on the failed write.
C10_Witness ==
    /\ slow /\ closeStatus = "StatusPolicyViolation"
    /\ pc = "Done" /\ exitBranch = "msgs" /\ retErr.cause = "closed"

\* C11: when the write loop receives a fatal error from the read goroutine
\* it makes one attempt to write an error event (the event is appended to
\* the wire, or the write fails) and returns a non-nil error in the same
\* step in both cases; afterwards nothing more is written and the loop is
\* not entered again.
C11_FatalErrorOneWriteThenReturn ==
    /\ [][(internalErrors # <<>> /\ internalErrors' = <<>>) =>
            /\ pc = "Loop" /\ pc' = "Returned"
            /\ exitBranch' = "internalErrors"
            /\ retErr' # Nil
            /\ \/ /\ wire' = Append(wire, [t |-> EventError, id |-> 0,
                                           src |-> 0])
                  /\ wfailed' = wfailed
               \/ (wire' = wire /\ wfailed')]_vars
    /\ [][exitBranch = "internalErrors" => (wire' = wire /\ pc' # "Loop")]_vars

\* A render error of the read goroutine was received, its error event was
\* written last and _serveWS returned.
C11_Witness ==
    /\ pc = "Returned" /\ exitBranch = "internalErrors"
    /\ recvErr.op = "render" /\ ~wfailed
    /\ wire[Len(wire)] = [t |-> EventError, id |-> 0, src |-> 0]

\* C20: the step in which the read goroutine receives a binary frame
\* calls no handler, makes no render or snapshot update, queues no
\* acknowledgement and offers no error, leaves the socket as it was and
\* leaves the read goroutine at the read of the next frame; while the
\* binary frame is the last frame read the goroutine is never at a
\* dispatch, render, acknowledge or error-offering position.
C20_BinaryFrameIgnored ==
    /\ [][(nread' # nread /\ frame' = MessageBinary) =>
            /\ rpc = "read" /\ rpc' = "read"
            /\ UNCHANGED <<m, outcome, nRender, nUpdate, nAck>>
            /\ UNCHANGED <<sockets, connected, assigns, latestRender, msgs,
                           closeStatus, slow>>
            /\ UNCHANGED <<internalErrors, eventErrors, chClosed>>]_vars
    /\ [](frame = MessageBinary =>
            rpc \in {"read", "sendRead", "close", "exited"})

\* A text frame was processed and acknowledged, then a binary frame was
\* read, and the read goroutine is back at the read.
C20_Witness ==
    /\ frame = MessageBinary /\ nread = 2 /\ rpc = "read"
    /\ m.id = 1 /\ nAck = 1

\* The calls a complete re-mount makes: Mount, the param handlers in
\* registration order, the render; all succeeded, all on a connected socket.
FullRemount ==
    <<Call("Mount", 0, TRUE)>>
    \o [i \in 1..NumParams |-> Call("Params", i, TRUE)]
    \o <<Call("Render", 0, TRUE)>>

\* C16: on a stateful connection Mount runs once, on the registered socket
\* with Connected true, then the param handlers one by one in registration
\* order, then one render with snapshot update, all before the write loop
\* runs and before it has written anything; a failure of Mount, a param
\* handler or the render returns a non-nil error from _serveWS at that step,
\* the later steps are not run and the write loop is never entered.
C16_RemountBeforeLoop ==
    /\ [](\A i \in DOMAIN wlog :
            /\ wlog[i] = [FullRemount[i] EXCEPT !.ok = wlog[i].ok]
            /\ wlog[i].connected /\ connected
            /\ (~wlog[i].ok => i = Len(wlog)))
    /\ [](pc = "Loop" => wlog = FullRemount)
    /\ [][(mounts' # mounts) =>
            (mounts' = 1 /\ Sock \in sockets /\ wlog = <<>>)]_vars
    /\ [][(wlog' # wlog) =>
            (\A i \in DOMAIN wire : wire[i].t = EventConnect)]_vars
    /\ [][(pc # "Loop" /\ pc' = "Loop") =>
            (pc = "Render" /\ latestRender' = Render(assigns))]_vars
    /\ []((wlog # <<>> /\ ~wlog[Len(wlog)].ok) =>
            /\ pc \in {"Returned", "Done"} /\ retErr # Nil
            /\ exitBranch \in {"mount", "params", "render"}
            /\ \A i \in DOMAIN wire : wire[i].t = EventConnect)

\* The second param handler failed after Mount and the first param handler
\* had run: _serveWS returned without a render.
C16_Witness ==
    /\ pc = "Returned" /\ exitBranch = "params" /\ pidx = 2
    /\ mounts = 1 /\ Len(wlog) = 3 /\ ~wlog[3].ok

---------------------------------------------------------------------------
\* The stateless path

\* The entries of a log made by calls of op.
Calls(log, op) == {i \in DOMAIN log : log[i].op = op}

\* The request's flow has been cut short by the Error handler.
Failed == Calls(hlog, "Error") # {}

\* C12: a Get failure on a request without the live-repair marker clears
\* the session and answers with one redirect to the same path carrying the
\* marker, and calls neither Mount, Render nor the Error handler; a Get
\* failure on a request with the marker calls the Error handler and issues
\* no redirect; a client following redirects is answered with at most one
\* redirect.
C12_RepairRedirectsOnce ==
    /\ [](nredirects <= 1)
    /\ [][(hpc = "Get" /\ hpc' = "idle" /\ hreq.repair = "") =>
            /\ session' = "cleared"
            /\ hresp' = [status |-> "307", body |-> NoBody,
                         location |-> [path |-> hreq.path, repair |-> "1"]]
            /\ nredirects' = nredirects + 1
            /\ Cardinality(Calls(hlog', "Redirect")) = 1
            /\ Calls(hlog', "Mount") \cup Calls(hlog', "Render")
                 \cup Calls(hlog', "Error") = {}]_vars
    /\ [][(hpc = "Get" /\ hpc' = "idle" /\ hreq.repair # "") =>
            /\ hlog'[Len(hlog')] = Step("Error", Err("session", "corrupted"))
            /\ Cardinality(Calls(hlog', "Error")) = 1
            /\ Calls(hlog', "Redirect") = {}
            /\ hresp'.status # "307"
            /\ UNCHANGED <<nredirects, session>>]_vars

\* The client followed the redirect and the session store failed again:
\* the Error handler answered.
C12_Witness ==
    /\ hpc = "idle" /\ nredirects = 1 /\ hreq.repair = "1"
    /\ hresp.status = "500" /\ Failed /\ session = "cleared"

\* C13: when Mount, a param handler, Render or the session Save fails on
\* the stateless path, the Error handler is called once, with that error,
\* right after the failed call; nothing is called after it, no 200 is
\* written and no body is sent.
C13_FailureGoesToErrorHandler ==
    /\ [](Failed =>
            LET n == Len(hlog) IN
            /\ Calls(hlog, "Error") = {n}
            /\ hlog[n - 1].op =
                 (CASE hlog[n].arg.op = "mount" -> "Mount"
                    [] hlog[n].arg.op = "params" -> "Params"
                    [] hlog[n].arg.op = "render" -> "Render"
                    [] hlog[n].arg.op = "save" -> "Save"
                    [] OTHER -> "Get")
            /\ Calls(hlog, "WriteHeader") = {}
            /\ hpc = "idle"
            /\ hresp.status # "200" /\ hresp.body = ErrorText(hlog[n].arg)
            /\ (hlog[n].arg.op \in {"mount", "params", "render"}
                  => Calls(hlog, "Save") = {})
            /\ (hlog[n].arg.op \in {"mount", "params"}
                  => Calls(hlog, "Render") = {})
            /\ (hlog[n].arg.op = "mount" => Calls(hlog, "Params") = {}))
    /\ [](hresp.status = "500" => Failed)
    /\ [][(Failed /\ hlog' # hlog) => (hlog' = <<>> /\ hpc' = "Get")]_vars

\* The render failed after Mount and every param handler had run.
C13_Witness ==
    /\ Failed /\ hlog[Len(hlog)].arg = Err("render", "app")
    /\ Cardinality(Calls(hlog, "Params")) = NumParams
    /\ hresp.status = "500"

\* The calls of a successful stateless request for req, in order.
FullStateless(req) ==
    LET last == IF NumParams = 0 THEN MountState ELSE ParamResult(NumParams)
    IN  <<Step("Get", req), Step("Mount", FALSE), Step("Assign", MountState)>>
        \o [i \in 1..(2 * NumParams) |->
              IF i % 2 = 1 THEN Step("Params", (i + 1) \div 2)
                           ELSE Step("Assign", ParamResult(i \div 2))]
        \o <<Step("Render", last), Step("UpdateRender", Render(last)),
             Step("Save", req), Step("WriteHeader", "200")>>

\* C14: a stateless request that is answered 200 has made exactly these
\* calls in this order: Get, Mount and the assignment of its result, every
\* param handler in registration order each followed by the assignment of
\* its result, Render and the snapshot update, Save, the 200 header; the body
\* is the document of the tree rendered from the last assigned state; while
\* a request has not failed or been redirected its calls are a prefix of
\* that sequence.
C14_StatelessOrder ==
    /\ (hresp.status = "200" =>
          /\ hlog = FullStateless(hreq)
          /\ hresp.body = HtmlRender(Render(hAssigns))
          /\ hLatestRender = Render(hAssigns)
          /\ session = "saved")
    /\ ((~Failed /\ Calls(hlog, "Redirect") = {}) =>
          /\ Len(hlog) <= Len(FullStateless(hreq))
          /\ hlog = SubSeq(FullStateless(hreq), 1, Len(hlog)))

\* A request was answered 200 with the document.
C14_Witness ==
    /\ hpc = "idle" /\ hresp.status = "200" /\ hresp.body # NoBody
    /\ Len(hlog) = 7 + 2 * NumParams

\* C15: whatever the interleaving of stateless requests and the stateful
\* connection, the live set holds only the socket _serveWS created, whose
\* Connected flag is true, never the socket of a stateless request, and no
\* step of a stateless request changes the live set.
C15_StatelessNeverRegisters ==
    /\ [](\A sock \in sockets : sock = Sock /\ connected)
    /\ [](HSock \notin sockets /\ ~hConnected)
    /\ [][(httpVars' # httpVars) => sockets' = sockets]_vars

\* A stateless request has built its socket and is being served while the
\* stateful connection is in its write loop.
C15_Witness ==
    /\ hpc = "Render" /\ pc = "Loop" /\ sockets = {Sock}
    /\ hAssigns # NoState

\* C17: when a stateless request for the page has been answered, the first
\* render of the stateful connection is diffed against the stateless
\* snapshot: at the render that precedes the write loop the connected
\* socket's previous snapshot is the snapshot stored by the stateless
\* request.
C17_FirstRenderDiffedAgainstStateless ==
    [][(pc = "Render" /\ pc' = "Loop" /\ hresp.status = "200")
         => latestRender = hLatestRender]_vars

---------------------------------------------------------------------------
\* Handler construction

\* C18: a constructor applies its options in the order given, each once
\* per target; once an option has returned an error no later option is
\* applied and no handler is returned.
C18_OptionsInOrderAbortOnError ==
    \A i \in DOMAIN capplied :
        /\ capplied[i].i =
             Cardinality({j \in 1..i :
                            capplied[j].target = capplied[i].target})
        /\ (~capplied[i].ok => (i = Len(capplied) /\ cresult # "handler"))

---------------------------------------------------------------------------
\* Component.Event

\* An id after which the separator is found again: it holds no "--" and
\* does not end with "-".
Unambiguous(id) ==
    /\ \A k \in 1..(Len(id) - 1) : ~(id[k] = "-" /\ id[k + 1] = "-")
    /\ (id # <<>> => id[Len(id)] # "-")

---------------------------------------------------------------------------
\* The read goroutine and the end of _serveWS

\* C22: the read goroutine is not left blocked in a channel send once
\* _serveWS has returned and serveWS has finished: from then on nothing
\* receives from the channels, so a read goroutine found at a send at that
\* point stays there for ever and never terminates.
C22_ReadActivityNotLeftBlocked ==
    pc = "Done" =>
        rpc \notin {"sendRead", "sendDecode", "sendRender", "sendEvent"}

\* C23: no inbound event is dispatched to a handler while the re-mount, the
\* param replay and the first render of the connection are still to be
\* done, and state assigned by an event handler is never overwritten by
\* the Assign of the re-mount or of the param replay.
C23_NoDispatchBeforeRemount ==
    /\ [][(rpc = "dispatch" /\ rpc' # rpc) =>
            pc \notin {"Mount", "Params", "Render"}]_vars
    /\ [][(assigns \in EventStates /\ wlog' # wlog) => assigns' = assigns]_vars

\* C24: once the write loop has been handed the error of an undecodable
\* text message, the read goroutine dispatches no further event and makes
\* no further render or snapshot update.
C24_NoDispatchAfterUndecodable ==
    [][(recvErr.op = "decode") =>
         /\ ~(rpc = "dispatch" /\ rpc' # rpc)
         /\ nRender' <= nRender
         /\ nUpdate' <= nUpdate]_vars

\* The acknowledgement of the message being processed.
Ack == [t |-> EventAck, id |-> m.id, src |-> 0]

---------------------------------------------------------------------------
\* BaseHandler: the registries

\* The handler of the last registration of kind for t, none when there is
\* no such registration.
LastRegistered(kind, t) ==
    LET calls == {i \in DOMAIN rlog : rlog[i].kind = kind /\ rlog[i].t = t}
    IN  IF calls = {} THEN "none"
        ELSE rlog[CHOOSE i \in calls : \A j \in calls : j <= i].handler

\* C21: after any sequence of HandleEvent and HandleSelf calls, getEvent(t)
\* returns the handler of the last HandleEvent(t) and fails with
\* ErrNoEventHandler exactly when there is none; getSelf(t) likewise for
\* HandleSelf(t); a registration of one kind never changes the lookups of
\* the other kind.
C21_LookupReturnsLastRegistered ==
    /\ \A t \in RegTypes :
         /\ getEventOf(bh, t) =
              IF LastRegistered("event", t) = "none" THEN NotFound
              ELSE Found(LastRegistered("event", t))
         /\ getSelf(bh, t) =
              IF LastRegistered("self", t) = "none" THEN NotFound
              ELSE Found(LastRegistered("self", t))
    /\ (rgot.kind # "none" =>
          rgot.res = IF LastRegistered(rgot.kind, rgot.t) = "none"
                     THEN NotFound
                     ELSE Found(LastRegistered(rgot.kind, rgot.t)))

\* A type was registered twice as an event and once as a self handler with
\* different handlers; getEvent found the second one.
C21_Witness ==
    /\ rgot.kind = "event" /\ rgot.res = Found("g")
    /\ Len(rlog) = 3
    /\ rlog[1] = [kind |-> "event", t |-> rgot.t, handler |-> "f"]
    /\ rlog[2] = [kind |-> "event", t |-> rgot.t, handler |-> "g"]
    /\ rlog[3] = [kind |-> "self", t |-> rgot.t, handler |-> "f"]

---------------------------------------------------------------------------
\* The handler built without options

---------------------------------------------------------------------------
\* page.Component

\* C27: a CallEvent or CallSelf changes the component's State only on
\* success: with no handler registered for the event in the registry of
\* the call it returns ErrNoEventHandler and leaves State as it was; when
\* the handler returns an error it returns that error and leaves State as
\* it was; otherwise it returns nil and State is the value the handler
\* returned.  A call changes no registry.
C27_StateChangesOnlyOnSuccess ==
    [][(clast' # clast \/ cret' # cret \/ comp'.State # comp.State) =>
         LET registry == IF clast'.kind = "event" THEN comp.eventHandlers
                         ELSE comp.selfHandlers
             has == /\ clast'.event \in DOMAIN registry
                    /\ registry[clast'.event] # "nil"
         IN  /\ comp' = [comp EXCEPT !.State = comp'.State]
             /\ IF ~has
                THEN cret' = "ErrNoEventHandler" /\ comp'.State = comp.State
                ELSE IF clast'.res.err # "nil"
                THEN cret' = clast'.res.err /\ comp'.State = comp.State
                ELSE cret' = "nil" /\ comp'.State = clast'.res.state]_vars

\* After a successful call set State, a self handler reached through its
\* scoped name returned an error together with another state: State is
\* still the earlier value.
C27_Witness ==
    /\ clast.kind = "self" /\ clast.event = Event(comp.id, <<"a">>)
    /\ clast.res = [state |-> "s2", err |-> "app"]
    /\ cret = "app" /\ comp.State = "s1"

=============================================================================
